---- MODULE Spec2Model ----
(***************************************************************************)
(* Model of the AutomateIQ backend authentication pipeline:                *)
(*   middleware/auth.js  (auth, authorize, checkSubscription,              *)
(*                        checkAICredits)                                  *)
(*   routes/auth.js      (generateToken, login, refresh)                   *)
(* The clock is Date.now() in milliseconds; jsonwebtoken stamps and        *)
(* compares whole seconds (Math.floor(Date.now() / 1000)).                 *)
(***************************************************************************)
EXTENDS Integers, Sequences, FiniteSets, TLC

(* ------------------------------ bounds -------------------------------- *)
\* clock steps, store changes and token issues a behaviour may contain
MaxEvents == 3

\* longest organization name, in characters
MaxNameLen == 3

\* largest maxRetries given to retryWithBackoff
MaxRetries == 4

(* ------------------------- program constants -------------------------- *)
\* expiresIn: '7d', in seconds
SevenDays == 604800

JWT_SECRET == "process.env.JWT_SECRET"
OtherSecret == "another-secret"

UserIds == {1, 2}
OrgIds == {1, 2}
Roles == {"admin", "manager", "staff"}
Plans == {"starter", "business", "enterprise"}
Statuses == {"active", "inactive", "cancelled", "past_due"}

\* the clock advances by half a second or by half a second less than 7 days
ClockSteps == {500, SevenDays * 1000 - 500}
\* the clock is followed for three token lifetimes
Horizon == 3 * SevenDays * 1000

MsgNoToken == "Access denied. No token provided."
MsgUser == "Invalid token. User not found or inactive."
MsgOrg == "Invalid token. Organization not found or inactive."
MsgInvalid == "Invalid token."
MsgExpired == "Token expired."
MsgAuthFailed == "Authentication failed."
MsgAuthRequired == "Access denied. Authentication required."
MsgForbidden == "Access denied. Insufficient permissions."
MsgOrgRequired == "Organization context required."
MsgSubscription == "Subscription required. Please upgrade your plan."
\* `${requiredPlan} plan or higher required.`
MsgPlan(requiredPlan) ==
  CASE requiredPlan = "starter" -> "starter plan or higher required."
    [] requiredPlan = "business" -> "business plan or higher required."
    [] requiredPlan = "enterprise" -> "enterprise plan or higher required."
MsgCredits == "Insufficient AI credits. Please upgrade your plan."

(* ------------------------------ tokens -------------------------------- *)
\* a signed JWT: payload {userId, organizationId, iat, exp} and the key of
\* its signature
Jwt(u, o, iat, key) ==
  [kind |-> "jwt", userId |-> u, organizationId |-> o,
   iat |-> iat, exp |-> iat + SevenDays, key |-> key]

\* req.cookies.token is undefined
NoToken == [kind |-> "absent", userId |-> 0, organizationId |-> 0,
            iat |-> 0, exp |-> 0, key |-> ""]
\* the empty string
EmptyToken == [NoToken EXCEPT !.kind = "empty"]
\* a string that is not a JWT
MalformedToken == [NoToken EXCEPT !.kind = "malformed"]

\* JavaScript truthiness of a token value: undefined and '' are falsy
Falsy(token) == token.kind \in {"absent", "empty"}

\* faulty variant of generateToken: the two ids change places in the payload
generateTokenSwapped(userId, organizationId, t) ==
  Jwt(organizationId, userId, t \div 1000, JWT_SECRET)

\* faulty variant of generateToken: the expiry is counted from the next second
generateTokenLate(userId, organizationId, t) ==
  Jwt(userId, organizationId, t \div 1000 + 1, JWT_SECRET)

\* jwt.sign({ userId, organizationId }, JWT_SECRET, { expiresIn: '7d' })
\* at clock t (ms): iat = floor(t / 1000), exp = iat + 7 days
generateToken(userId, organizationId, t) ==
  Jwt(userId, organizationId, t \div 1000, JWT_SECRET)

VerifyError(name) == [error |-> name, userId |-> 0, organizationId |-> 0]

\* faulty variant of jwtVerify: the expiry is checked before the signature
jwtVerifyExpiryFirst(token, secret, t) ==
  IF token.kind # "jwt" THEN VerifyError("JsonWebTokenError")
  ELSE IF t \div 1000 >= token.exp THEN VerifyError("TokenExpiredError")
  ELSE IF token.key # secret THEN VerifyError("JsonWebTokenError")
  ELSE [error |-> "none", userId |-> token.userId,
        organizationId |-> token.organizationId]

\* jwt.verify(token, secret) at clock t (ms): structure, then signature,
\* then expiry (floor(t / 1000) >= exp); returns the payload or the name of
\* the error thrown
jwtVerify(token, secret, t) ==
  IF token.kind # "jwt" THEN VerifyError("JsonWebTokenError")
  ELSE IF token.key # secret THEN VerifyError("JsonWebTokenError")
  ELSE IF t \div 1000 >= token.exp THEN VerifyError("TokenExpiredError")
  ELSE [error |-> "none", userId |-> token.userId,
        organizationId |-> token.organizationId]

(* ------------------------------ headers ------------------------------- *)
\* req.headers.authorization: the first seven characters and the rest
NoHeader == [present |-> FALSE, prefix |-> "", rest |-> NoToken]
Header(prefix, token) == [present |-> TRUE, prefix |-> prefix, rest |-> token]

\* faulty variant of ExtractToken: the Authorization header is preferred
ExtractTokenHeaderFirst(cookies, headers) ==
  IF headers.present /\ headers.prefix = "Bearer " /\ ~Falsy(headers.rest)
  THEN headers.rest
  ELSE cookies

\* faulty variant of ExtractToken: any Authorization header value is a token
ExtractTokenAnyScheme(cookies, headers) ==
  IF Falsy(cookies) /\ headers.present THEN headers.rest ELSE cookies

\* let token = req.cookies.token; if (!token && req.headers.authorization)
\* { if (authHeader.startsWith('Bearer ')) token = authHeader.substring(7) }
ExtractToken(cookies, headers) ==
  IF Falsy(cookies) /\ headers.present
  THEN IF headers.prefix = "Bearer " THEN headers.rest ELSE cookies
  ELSE cookies

(* ---------------------------- the request ----------------------------- *)
NoRes == [status |-> 0, message |-> "", code |-> "", required |-> 0,
          available |-> 0, requiredPlan |-> "", currentPlan |-> ""]
Res(status, message) == [NoRes EXCEPT !.status = status, !.message = message]

\* req.user is undefined
NoCtx == [present |-> FALSE, userId |-> 0, organizationId |-> 0,
          role |-> "", email |-> ""]

\* a document that does not exist (findById returns null)
NoUserDoc == [_id |-> 0, email |-> "", role |-> "", isActive |-> FALSE,
              organizationId |-> 0, lastActiveAt |-> -1, lastLoginAt |-> -1,
              loginCount |-> 0]
NoOrgDoc == [_id |-> 0, slug |-> <<>>, isActive |-> FALSE,
             subscription |-> [plan |-> "", status |-> ""],
             limits |-> [aiCredits |-> 0], usage |-> [aiCredits |-> 0, users |-> 0]]

\* one middleware of a route's chain
Gate(g, roles, plan, credits) ==
  [gate |-> g, roles |-> roles, requiredPlan |-> plan, creditsRequired |-> credits]
GateAuth == Gate("auth", {}, "", 0)
GateAuthorize(roles) == Gate("authorize", roles, "", 0)
GateCheckSubscription(plan) == Gate("checkSubscription", {}, plan, 0)
GateCheckAICredits(n) == Gate("checkAICredits", {}, "", n)

\* the middleware chains of the routes
Routes == {"refresh", "subscribe", "predict"}
Chain(route) ==
  CASE route = "refresh" -> <<GateAuth>>
    [] route = "subscribe" -> <<GateAuth, GateAuthorize({"admin"})>>
    [] route = "predict" -> <<GateAuth, GateCheckAICredits(10)>>

VARIABLES
  now,          \* Date.now(), in ms
  users,        \* the User collection
  orgs,         \* the Organization collection
  issued,       \* the tokens the server has issued, with their time of issue
  req,          \* the request being served
  events,       \* number of clock steps, store changes and token issues
  charges,      \* completed operations whose cost is not yet on the usage record
  cleared,      \* the tokens whose cookie a logout response has cleared
  regs,         \* the register requests in progress, by request
  call,         \* the call of a helper function in progress
  ui            \* the AuthProvider of the frontend and its calls in flight

vars == <<now, users, orgs, issued, req, events, charges, cleared, regs, call, ui>>

NewReq(chain, route, cookie, header) ==
  [route |-> route, chain |-> chain, pos |-> 1,
   cookies |-> cookie, headers |-> header,
   token |-> NoToken, decoded |-> VerifyError("not-verified"),
   lookups |-> 0, thrown |-> "none", update |-> "none", at |-> -1,
   user |-> NoCtx, organization |-> NoOrgDoc,
   res |-> NoRes, sent |-> 0, nextCalls |-> 0, ran |-> <<>>,
   setCookie |-> NoToken,
   body |-> [email |-> "", valid |-> FALSE, pwOk |-> FALSE]]

\* no request yet
Idle == [NewReq(<<>>, "none", NoToken, NoHeader) EXCEPT !.sent = 1]

Email(u) == IF u = 1 THEN "ada@acme.io" ELSE "bob@bolt.io"

SeedUsers ==
  [u \in UserIds |->
     [_id |-> u, email |-> Email(u),
      role |-> IF u = 1 THEN "admin" ELSE "staff",
      isActive |-> TRUE, organizationId |-> 3 - u,
      lastActiveAt |-> -1, lastLoginAt |-> -1, loginCount |-> 0]]

SeedOrgs ==
  [o \in OrgIds |->
     [_id |-> o, slug |-> IF o = 1 THEN <<"a">> ELSE <<"a", "-", "1">>,
      isActive |-> TRUE,
      subscription |-> [plan |-> IF o = 1 THEN "business" ELSE "starter",
                        status |-> "active"],
      limits |-> [aiCredits |-> IF o = 1 THEN 10000 ELSE 1000],
      usage |-> [aiCredits |-> IF o = 1 THEN 0 ELSE 995, users |-> 1]]]

\* two registered organizations, each with one account: account 1 is the
\* admin of organization 2, account 2 a staff member of organization 1
Init ==
  /\ now = 0
  /\ users = SeedUsers
  /\ orgs = SeedOrgs
  /\ issued = {}
  /\ req = Idle
  /\ events = 0
  /\ charges = <<>>
  /\ cleared = {}
  /\ regs = <<>>
  /\ call = <<>>
  /\ ui = <<>>

(* ------------------------------- store -------------------------------- *)
\* User.findById(id): the document, or null
FindUserById(id) == IF id \in DOMAIN users THEN users[id] ELSE NoUserDoc

\* Organization.findById(id): the document, or null
FindOrgById(id) == IF id \in DOMAIN orgs THEN orgs[id] ELSE NoOrgDoc

\* User.findByEmail(email): the document, or null
FindUserByEmail(email) ==
  IF \E u \in DOMAIN users : users[u]._id # 0 /\ users[u].email = email
  THEN users[CHOOSE u \in DOMAIN users : users[u]._id # 0 /\ users[u].email = email]
  ELSE NoUserDoc

(* ------------------------ responses and next() ------------------------ *)
Send(r, res) == [r EXCEPT !.res = res, !.sent = @ + 1]
Forward(r) == [r EXCEPT !.pos = @ + 1, !.nextCalls = @ + 1]
Ran(r, name) == [r EXCEPT !.ran = Append(@, name)]

\* faulty variant of Current: the chain goes on after a response was sent
CurrentAfterResponse(r) ==
  IF r.pos <= Len(r.chain) THEN r.chain[r.pos].gate ELSE "none"

\* the middleware that is to run next on the request
Current(r) ==
  IF r.sent = 0 /\ r.pos <= Len(r.chain) THEN r.chain[r.pos].gate ELSE "none"

(* ------------------------------- auth --------------------------------- *)
\* faulty variant of UserRejected: an inactive account is let through
UserRejectedOnlyNull(user) == user._id = 0

\* if (!user || !user.isActive)
UserRejected(user) == user._id = 0 \/ ~user.isActive

\* faulty variant of OrgRejected: an inactive tenant is let through
OrgRejectedOnlyNull(organization) == organization._id = 0

\* if (!organization || !organization.isActive)
OrgRejected(organization) == organization._id = 0 \/ ~organization.isActive

\* faulty variant of CatchResponse: every verification failure is 'Invalid token.'
CatchResponseOneMessage(name) ==
  IF name \in {"JsonWebTokenError", "TokenExpiredError"}
  THEN Res(401, MsgInvalid)
  ELSE Res(500, MsgAuthFailed)

\* faulty variant of CatchResponse: the 500 body names the error
CatchResponseLeaky(name) ==
  IF name = "JsonWebTokenError" THEN Res(401, MsgInvalid)
  ELSE IF name = "TokenExpiredError" THEN Res(401, MsgExpired)
  ELSE [Res(500, MsgAuthFailed) EXCEPT !.code = name]

\* the catch block of auth, by error.name
CatchResponse(name) ==
  IF name = "JsonWebTokenError" THEN Res(401, MsgInvalid)
  ELSE IF name = "TokenExpiredError" THEN Res(401, MsgExpired)
  ELSE Res(500, MsgAuthFailed)

\* faulty variant of UserContext: the role is not copied from the account
UserContextNoRole(user, organization) ==
  [present |-> TRUE, userId |-> user._id, organizationId |-> organization._id,
   role |-> "admin", email |-> user.email]

\* req.user = { userId: user._id, organizationId: organization._id,
\*              role: user.role, email: user.email }
UserContext(user, organization) ==
  [present |-> TRUE, userId |-> user._id, organizationId |-> organization._id,
   role |-> user.role, email |-> user.email]

\* faulty variant of auth: a token whose cookie a logout has cleared is refused
authRevoking(dbUser, dbOrg, upd) ==
  /\ Current(req) = "auth"
  /\ LET token == ExtractToken(req.cookies, req.headers)
         decoded == jwtVerify(token, JWT_SECRET, now)
         user == FindUserById(decoded.userId)
         organization == FindOrgById(decoded.organizationId)
         r0 == [Ran(req, "auth") EXCEPT !.token = token, !.at = now]
         r1 == [r0 EXCEPT !.decoded = decoded]
         r2 == [r1 EXCEPT !.lookups = 1]
         r3 == [r1 EXCEPT !.lookups = 2]
     IN req' =
          IF Falsy(token) THEN Send(r0, Res(401, MsgNoToken))
          ELSE IF decoded.error # "none" THEN Send(r1, CatchResponse(decoded.error))
          ELSE IF token \in cleared THEN Send(r1, Res(401, MsgInvalid))
          ELSE IF dbUser = "error"
               THEN Send([r2 EXCEPT !.thrown = "MongoError"], CatchResponse("MongoError"))
          ELSE IF UserRejected(user) THEN Send(r2, Res(401, MsgUser))
          ELSE IF dbOrg = "error"
               THEN Send([r3 EXCEPT !.thrown = "MongoError"], CatchResponse("MongoError"))
          ELSE IF OrgRejected(organization) THEN Send(r3, Res(401, MsgOrg))
          ELSE IF upd = "throw"
               THEN Send([r3 EXCEPT !.update = "threw", !.thrown = "Error"],
                         CatchResponse("Error"))
          ELSE Forward([r3 EXCEPT
                 !.update = IF upd = "ok" THEN "saving" ELSE "failing",
                 !.user = UserContext(user, organization),
                 !.organization = organization])
  /\ UNCHANGED <<now, users, orgs, issued, events, charges, cleared, regs, call, ui>>

\* auth(req, res, next).  dbUser and dbOrg say whether the store lookup
\* answers or raises; upd is the outcome of user.updateLastActive(): it starts
\* a save that will succeed ("ok"), throws at once ("throw"), or starts a
\* save that will fail ("reject").
auth(dbUser, dbOrg, upd) ==
  /\ Current(req) = "auth"
  /\ LET token == ExtractToken(req.cookies, req.headers)
         decoded == jwtVerify(token, JWT_SECRET, now)
         user == FindUserById(decoded.userId)
         organization == FindOrgById(decoded.organizationId)
         r0 == [Ran(req, "auth") EXCEPT !.token = token, !.at = now]
         r1 == [r0 EXCEPT !.decoded = decoded]
         r2 == [r1 EXCEPT !.lookups = 1]
         r3 == [r1 EXCEPT !.lookups = 2]
     IN req' =
          IF Falsy(token) THEN Send(r0, Res(401, MsgNoToken))
          ELSE IF decoded.error # "none" THEN Send(r1, CatchResponse(decoded.error))
          ELSE IF dbUser = "error"
               THEN Send([r2 EXCEPT !.thrown = "MongoError"], CatchResponse("MongoError"))
          ELSE IF UserRejected(user) THEN Send(r2, Res(401, MsgUser))
          ELSE IF dbOrg = "error"
               THEN Send([r3 EXCEPT !.thrown = "MongoError"], CatchResponse("MongoError"))
          ELSE IF OrgRejected(organization) THEN Send(r3, Res(401, MsgOrg))
          ELSE IF upd = "throw"
               THEN Send([r3 EXCEPT !.update = "threw", !.thrown = "Error"],
                         CatchResponse("Error"))
          ELSE Forward([r3 EXCEPT
                 !.update = IF upd = "ok" THEN "saving" ELSE "failing",
                 !.user = UserContext(user, organization),
                 !.organization = organization])
  /\ UNCHANGED <<now, users, orgs, issued, events, charges, cleared, regs, call, ui>>

\* user.updateLastActive(): the save that auth started and did not await
\* settles, after the synchronous rest of the chain has run; a failed save
\* is an unhandled rejection and changes nothing
updateLastActive ==
  /\ req.update \in {"saving", "failing"}
  /\ req.sent > 0
  /\ LET u == req.user.userId IN
     /\ users' = IF req.update = "saving" /\ users[u]._id # 0
                 THEN [users EXCEPT ![u].lastActiveAt = req.at]
                 ELSE users
     /\ req' = [req EXCEPT !.update = IF req.update = "saving" THEN "saved" ELSE "rejected"]
  /\ UNCHANGED <<now, orgs, issued, events, charges, cleared, regs, call, ui>>

(* --------------------------- the other gates --------------------------- *)
\* faulty variant of authorize: a request without a context is answered 403
authorizeNoCtx403(roles, r) ==
  IF ~r.user.present THEN Send(r, Res(403, MsgForbidden))
  ELSE IF r.user.role \notin roles THEN Send(r, Res(403, MsgForbidden))
  ELSE Forward(r)

\* faulty variant of authorize: the 403 branch does not return
authorizeNoReturn(roles, r) ==
  IF ~r.user.present THEN Send(r, Res(401, MsgAuthRequired))
  ELSE IF r.user.role \notin roles THEN Forward(Send(r, Res(403, MsgForbidden)))
  ELSE Forward(r)

\* authorize(...roles)(req, res, next)
authorize(roles, r) ==
  IF ~r.user.present THEN Send(r, Res(401, MsgAuthRequired))
  ELSE IF r.user.role \notin roles THEN Send(r, Res(403, MsgForbidden))
  ELSE Forward(r)

\* faulty variant of planHierarchy: business ranks above enterprise
planHierarchySwapped(plan) ==
  CASE plan = "starter" -> 0 [] plan = "business" -> 2 [] plan = "enterprise" -> 1

\* planHierarchy
planHierarchy(plan) ==
  CASE plan = "starter" -> 0 [] plan = "business" -> 1 [] plan = "enterprise" -> 2

\* faulty variant of checkSubscription: the tier check is made before the status check
checkSubscriptionTierFirst(requiredPlan, r) ==
  IF r.organization._id = 0 THEN Send(r, Res(401, MsgOrgRequired))
  ELSE LET currentPlan == r.organization.subscription.plan
           subscriptionStatus == r.organization.subscription.status
       IN IF planHierarchy(currentPlan) < planHierarchy(requiredPlan)
          THEN Send(r, [Res(403, MsgPlan(requiredPlan)) EXCEPT
                        !.code = "PLAN_UPGRADE_REQUIRED",
                        !.requiredPlan = requiredPlan,
                        !.currentPlan = currentPlan])
          ELSE IF subscriptionStatus # "active"
          THEN Send(r, [Res(403, MsgSubscription) EXCEPT !.code = "SUBSCRIPTION_REQUIRED"])
          ELSE Forward(r)

\* checkSubscription(requiredPlan)(req, res, next)
checkSubscription(requiredPlan, r) ==
  IF r.organization._id = 0 THEN Send(r, Res(401, MsgOrgRequired))
  ELSE LET currentPlan == r.organization.subscription.plan
           subscriptionStatus == r.organization.subscription.status
       IN IF subscriptionStatus # "active"
          THEN Send(r, [Res(403, MsgSubscription) EXCEPT !.code = "SUBSCRIPTION_REQUIRED"])
          ELSE IF planHierarchy(currentPlan) < planHierarchy(requiredPlan)
          THEN Send(r, [Res(403, MsgPlan(requiredPlan)) EXCEPT
                        !.code = "PLAN_UPGRADE_REQUIRED",
                        !.requiredPlan = requiredPlan,
                        !.currentPlan = currentPlan])
          ELSE Forward(r)

\* the authorize middleware of the route runs
Authorize ==
  /\ Current(req) = "authorize"
  /\ req' = authorize(req.chain[req.pos].roles, Ran(req, "authorize"))
  /\ UNCHANGED <<now, users, orgs, issued, events, charges, cleared, regs, call, ui>>

\* the checkSubscription middleware of the route runs
CheckSubscription ==
  /\ Current(req) = "checkSubscription"
  /\ req' = checkSubscription(req.chain[req.pos].requiredPlan,
                              Ran(req, "checkSubscription"))
  /\ UNCHANGED <<now, users, orgs, issued, events, charges, cleared, regs, call, ui>>

\* faulty variant of canUseAICredits: an unlimited allowance is compared too
canUseAICreditsNoBypass(organization, credits) ==
  organization.limits.aiCredits - organization.usage.aiCredits >= credits

\* faulty variant of canUseAICredits: a remainder equal to the cost is refused
canUseAICreditsStrict(organization, credits) ==
  \/ organization.limits.aiCredits = -1
  \/ organization.limits.aiCredits - organization.usage.aiCredits > credits

\* Organization.canUseAICredits(credits): a limit of -1 is unlimited
canUseAICredits(organization, credits) ==
  \/ organization.limits.aiCredits = -1
  \/ organization.limits.aiCredits - organization.usage.aiCredits >= credits

\* faulty variant of checkAICredits: a request that passes is charged the cost
checkAICreditsDebit(creditsRequired, r) ==
  IF r.organization._id = 0 THEN Send(r, Res(401, MsgOrgRequired))
  ELSE IF ~canUseAICredits(r.organization, creditsRequired)
  THEN Send(r, [Res(403, MsgCredits) EXCEPT
                !.code = "AI_CREDITS_EXHAUSTED",
                !.required = creditsRequired,
                !.available = r.organization.limits.aiCredits
                              - r.organization.usage.aiCredits])
  ELSE Forward([r EXCEPT !.organization.usage.aiCredits = @ + creditsRequired])

\* checkAICredits(creditsRequired)(req, res, next)
checkAICredits(creditsRequired, r) ==
  IF r.organization._id = 0 THEN Send(r, Res(401, MsgOrgRequired))
  ELSE IF ~canUseAICredits(r.organization, creditsRequired)
  THEN Send(r, [Res(403, MsgCredits) EXCEPT
                !.code = "AI_CREDITS_EXHAUSTED",
                !.required = creditsRequired,
                !.available = r.organization.limits.aiCredits
                              - r.organization.usage.aiCredits])
  ELSE Forward(r)

\* the checkAICredits middleware of the route runs
CheckAICredits ==
  /\ Current(req) = "checkAICredits"
  /\ req' = checkAICredits(req.chain[req.pos].creditsRequired,
                           Ran(req, "checkAICredits"))
  /\ UNCHANGED <<now, users, orgs, issued, events, charges, cleared, regs, call, ui>>

(* ---------------------------- generateSlug ---------------------------- *)
\* A string is a sequence of characters; these are the characters of the
\* organization names: a capital, a small letter, a digit, white space, a
\* dash and a character that is none of them.
NameChars == {"A", "a", "1", " ", "-", "!"}

Names == UNION {[1..n -> NameChars] : n \in 0..MaxNameLen}

\* name.toLowerCase()
toLowerCase(str) == [i \in 1..Len(str) |-> IF str[i] = "A" THEN "a" ELSE str[i]]

\* .replace(/[^a-z0-9\s-]/g, '')
RECURSIVE stripOthers(_)
stripOthers(str) ==
  IF str = <<>> THEN <<>>
  ELSE IF Head(str) \in {"a", "1", " ", "-"}
       THEN <<Head(str)>> \o stripOthers(Tail(str))
       ELSE stripOthers(Tail(str))

\* .replace(/\s+/g, '-') for ch = " " and to = "-", and
\* .replace(/-+/g, '-') for ch = "-" and to = "-"
RECURSIVE replaceRuns(_, _, _)
replaceRuns(str, ch, to) ==
  IF str = <<>> THEN <<>>
  ELSE IF Head(str) = ch
       THEN IF Len(str) >= 2 /\ str[2] = ch
            THEN replaceRuns(Tail(str), ch, to)
            ELSE <<to>> \o replaceRuns(Tail(str), ch, to)
       ELSE <<Head(str)>> \o replaceRuns(Tail(str), ch, to)

\* .trim('-'): String.prototype.trim takes no argument and removes the
\* white space at both ends
RECURSIVE trim(_)
trim(str) ==
  IF str = <<>> THEN <<>>
  ELSE IF Head(str) = " " THEN trim(Tail(str))
  ELSE IF str[Len(str)] = " " THEN trim(SubSeq(str, 1, Len(str) - 1))
  ELSE str

\* const baseSlug = name.toLowerCase().replace(...).replace(...).replace(...).trim('-')
BaseSlug(name) ==
  trim(replaceRuns(replaceRuns(stripOthers(toLowerCase(name)), " ", "-"), "-", "-"))

\* the decimal digits of a counter below ten
Digit(k) ==
  CASE k = 1 -> "1" [] k = 2 -> "2" [] k = 3 -> "3" [] k = 4 -> "4" [] k = 5 -> "5"
    [] k = 6 -> "6" [] k = 7 -> "7" [] k = 8 -> "8" [] k = 9 -> "9"

\* `${baseSlug}-${counter}`
Suffixed(baseSlug, counter) == baseSlug \o <<"-", Digit(counter)>>

\* the slugs tenants can have before the call
SlugPool ==
  {<<"a">>, Suffixed(<<"a">>, 1), Suffixed(<<"a">>, 2),
   <<"a", "-", "a">>, Suffixed(<<"a", "-", "a">>, 1), <<>>}

\* faulty variant of generateSlugStep: the slug is looked up once, not in a loop
generateSlugOnce(c) ==
  IF c.slug \in c.existing
  THEN [c EXCEPT !.slug = Suffixed(c.baseSlug, c.counter), !.counter = @ + 1,
                 !.lookups = @ + 1, !.pc = "done"]
  ELSE [c EXCEPT !.lookups = @ + 1, !.pc = "done"]

\* one turn of  while (await Organization.findBySlug(slug)) { ... }: the
\* lookup, and then either the body of the loop or the return
generateSlugStep(c) ==
  IF c.slug \in c.existing
  THEN [c EXCEPT !.slug = Suffixed(c.baseSlug, c.counter), !.counter = @ + 1,
                 !.lookups = @ + 1]
  ELSE [c EXCEPT !.lookups = @ + 1, !.pc = "done"]

\* the call of generateSlug(name) at its start, with the slugs in the store
SlugCall(name, existing) ==
  [fn |-> "generateSlug", name |-> name, existing |-> existing,
   baseSlug |-> BaseSlug(name), slug |-> BaseSlug(name),
   counter |-> 1, lookups |-> 0, pc |-> "loop"]

\* the loop of generateSlug run to its return
RECURSIVE slugLoop(_)
slugLoop(c) == IF c.pc = "done" THEN c.slug ELSE slugLoop(generateSlugStep(c))

(* ------------------------------ handlers ------------------------------ *)
\* a token handed to a client: the token, the arguments generateToken was
\* called with and the clock at the call
Issue(userId, organizationId, t) ==
  [token |-> generateToken(userId, organizationId, t), at |-> t,
   userId |-> userId, organizationId |-> organizationId]

\* faulty variant of Handler: the refreshed token keeps the issue time of the
\* presented token
HandlerKeepsIssueTime ==
  /\ req.sent = 0
  /\ req.pos = Len(req.chain) + 1
  /\ req.route \in Routes
  /\ req.route = "refresh" => events < MaxEvents
  /\ IF req.route = "refresh"
     THEN LET token == generateToken(req.user.userId, req.user.organizationId,
                                     req.token.iat * 1000)
          IN /\ issued' = issued \cup {Issue(req.user.userId, req.user.organizationId, now)}
             /\ events' = events + 1
             /\ req' = Send([Ran(req, "handler") EXCEPT !.setCookie = token],
                            Res(200, "Token refreshed successfully"))
     ELSE /\ UNCHANGED <<issued, events>>
          /\ req' = Send(Ran(req, "handler"), Res(200, "Success"))
  /\ UNCHANGED <<now, users, orgs, charges, cleared, regs, call, ui>>

\* the route handler runs after every middleware of the chain has called
\* next(); POST /refresh issues a new token for the attached context
Handler ==
  /\ req.sent = 0
  /\ req.pos = Len(req.chain) + 1
  /\ req.route \in Routes
  /\ req.route = "refresh" => events < MaxEvents
  /\ IF req.route = "refresh"
     THEN LET token == generateToken(req.user.userId, req.user.organizationId, now)
          IN /\ issued' = issued \cup {Issue(req.user.userId, req.user.organizationId, now)}
             /\ events' = events + 1
             /\ req' = Send([Ran(req, "handler") EXCEPT !.setCookie = token],
                            Res(200, "Token refreshed successfully"))
     ELSE /\ UNCHANGED <<issued, events>>
          /\ req' = Send(Ran(req, "handler"), Res(200, "Success"))
  /\ UNCHANGED <<now, users, orgs, charges, cleared, regs, call, ui>>

\* faulty variant of Login: the active flag is tested before the password
LoginActiveFirst(email, valid, pwOk, saveOk) ==
  /\ req = Idle
  /\ events < MaxEvents
  /\ LET user == FindUserByEmail(email)
         organization == FindOrgById(user.organizationId)
         r == [Ran(NewReq(<<>>, "login", NoToken, NoHeader), "handler") EXCEPT
                 !.body = [email |-> email, valid |-> valid, pwOk |-> pwOk]]
         token == generateToken(user._id, organization._id, now)
     IN
     IF ~valid
     THEN /\ req' = Send(r, Res(400, "Validation failed"))
          /\ UNCHANGED <<users, issued, events>>
     ELSE IF user._id = 0
     THEN /\ req' = Send(r, Res(401, "Invalid credentials"))
          /\ UNCHANGED <<users, issued, events>>
     ELSE IF ~user.isActive
     THEN /\ req' = Send(r, Res(401, "Account is deactivated"))
          /\ UNCHANGED <<users, issued, events>>
     ELSE IF ~pwOk
     THEN /\ req' = Send(r, Res(401, "Invalid credentials"))
          /\ UNCHANGED <<users, issued, events>>
     ELSE IF organization._id = 0
     THEN /\ req' = Send(r, Res(500, "Login failed"))
          /\ UNCHANGED <<users, issued, events>>
     ELSE IF ~organization.isActive
     THEN /\ req' = Send(r, Res(401, "Organization is deactivated"))
          /\ UNCHANGED <<users, issued, events>>
     ELSE IF ~saveOk
     THEN /\ req' = Send(r, Res(500, "Login failed"))
          /\ UNCHANGED <<users, issued, events>>
     ELSE /\ users' = [users EXCEPT ![user._id].lastLoginAt = now,
                                    ![user._id].loginCount = @ + 1,
                                    ![user._id].lastActiveAt = now]
          /\ issued' = issued \cup {Issue(user._id, organization._id, now)}
          /\ events' = events + 1
          /\ req' = Send([r EXCEPT !.setCookie = token], Res(200, "Login successful"))
  /\ UNCHANGED <<now, orgs, charges, cleared, regs, call, ui>>

\* POST /login.  valid is the result of the validation rules, pwOk the
\* result of user.comparePassword(password), saveOk says whether the awaited
\* user.updateLastActive() succeeds.
Login(email, valid, pwOk, saveOk) ==
  /\ req = Idle
  /\ events < MaxEvents
  /\ LET user == FindUserByEmail(email)
         organization == FindOrgById(user.organizationId)
         r == [Ran(NewReq(<<>>, "login", NoToken, NoHeader), "handler") EXCEPT
                 !.body = [email |-> email, valid |-> valid, pwOk |-> pwOk]]
         token == generateToken(user._id, organization._id, now)
     IN
     IF ~valid
     THEN /\ req' = Send(r, Res(400, "Validation failed"))
          /\ UNCHANGED <<users, issued, events>>
     ELSE IF user._id = 0 \/ ~pwOk
     THEN /\ req' = Send(r, Res(401, "Invalid credentials"))
          /\ UNCHANGED <<users, issued, events>>
     ELSE IF ~user.isActive
     THEN /\ req' = Send(r, Res(401, "Account is deactivated"))
          /\ UNCHANGED <<users, issued, events>>
     ELSE IF organization._id = 0
     THEN /\ req' = Send(r, Res(500, "Login failed"))
          /\ UNCHANGED <<users, issued, events>>
     ELSE IF ~organization.isActive
     THEN /\ req' = Send(r, Res(401, "Organization is deactivated"))
          /\ UNCHANGED <<users, issued, events>>
     ELSE IF ~saveOk
     THEN /\ req' = Send(r, Res(500, "Login failed"))
          /\ UNCHANGED <<users, issued, events>>
     ELSE /\ users' = [users EXCEPT ![user._id].lastLoginAt = now,
                                    ![user._id].loginCount = @ + 1,
                                    ![user._id].lastActiveAt = now]
          /\ issued' = issued \cup {Issue(user._id, organization._id, now)}
          /\ events' = events + 1
          /\ req' = Send([r EXCEPT !.setCookie = token], Res(200, "Login successful"))
  /\ UNCHANGED <<now, orgs, charges, cleared, regs, call, ui>>

\* POST /logout, sent by a client that holds the token t: res.clearCookie
\* ('token') and a 200; the route has no middleware and reads nothing
Logout(t) ==
  /\ req = Idle
  /\ events < MaxEvents
  /\ t \in {i.token : i \in issued} \ cleared
  /\ req' = Send([Ran(NewReq(<<>>, "logout", t, NoHeader), "handler")
                    EXCEPT !.setCookie = EmptyToken],
                 Res(200, "Logout successful"))
  /\ cleared' = cleared \cup {t}
  /\ events' = events + 1
  /\ UNCHANGED <<now, users, orgs, issued, charges, regs, call, ui>>

\* the ids the store gives to new documents: any unused id
FreeUserIds == {u \in UserIds : users[u]._id = 0}
FreeOrgIds == {o \in OrgIds : orgs[o]._id = 0}

\* the slugs of the tenants in the store
Slugs == {orgs[o].slug : o \in {id \in OrgIds : orgs[id]._id # 0}}

\* the organization names of the register requests: the first two have the
\* base slug a, the third the base slug a-1
RegNames == {<<"A">>, <<"a", "!">>, <<"A", " ", "1">>}

\* new Organization({ name, slug, email, industry, companySize }), with the
\* defaults of the schema: the starter plan and nothing used
NewOrganization(id, slug) ==
  [_id |-> id, slug |-> slug, isActive |-> TRUE,
   subscription |-> [plan |-> "starter", status |-> "active"],
   limits |-> [aiCredits |-> 1000],
   usage |-> [aiCredits |-> 0, users |-> 0]]

\* faulty variant of NewUser: the first account is an ordinary member
NewUserStaff(id, email, organizationId) ==
  [_id |-> id, email |-> email, role |-> "staff", isActive |-> TRUE,
   organizationId |-> organizationId,
   lastActiveAt |-> -1, lastLoginAt |-> -1, loginCount |-> 0]

\* new User({ email, ..., organizationId: organization._id, role: 'admin' })
NewUser(id, email, organizationId) ==
  [_id |-> id, email |-> email, role |-> "admin", isActive |-> TRUE,
   organizationId |-> organizationId,
   lastActiveAt |-> -1, lastLoginAt |-> -1, loginCount |-> 0]

\* POST /register.  valid is the result of the validation rules; orgSave,
\* userSave and usageSave say whether the three awaited saves succeed.
Register(email, name, valid, orgSave, userSave, usageSave) ==
  /\ req = Idle
  /\ events < MaxEvents
  /\ FreeUserIds # {} /\ FreeOrgIds # {}
  /\ LET existingUser == FindUserByEmail(email)
         o == CHOOSE id \in FreeOrgIds : \A other \in FreeOrgIds : id >= other
         u == CHOOSE id \in FreeUserIds : \A other \in FreeUserIds : id <= other
         orgSlug == slugLoop(SlugCall(name, Slugs))
         organization == NewOrganization(o, orgSlug)
         user == NewUser(u, email, organization._id)
         token == generateToken(user._id, organization._id, now)
         r == Ran(NewReq(<<>>, "register", NoToken, NoHeader), "handler")
     IN
     IF ~valid
     THEN /\ req' = Send(r, Res(400, "Validation failed"))
          /\ UNCHANGED <<users, orgs, issued, events>>
     ELSE IF existingUser._id # 0
     THEN /\ req' = Send(r, Res(400, "User already exists with this email"))
          /\ UNCHANGED <<users, orgs, issued, events>>
     ELSE IF orgSave = "error"
     THEN /\ req' = Send(r, Res(500, "Registration failed"))
          /\ UNCHANGED <<users, orgs, issued, events>>
     ELSE IF userSave = "error"
     THEN /\ req' = Send(r, Res(500, "Registration failed"))
          /\ orgs' = [orgs EXCEPT ![o] = organization]
          /\ UNCHANGED <<users, issued, events>>
     ELSE IF usageSave = "error"
     THEN /\ req' = Send(r, Res(500, "Registration failed"))
          /\ orgs' = [orgs EXCEPT ![o] = organization]
          /\ users' = [users EXCEPT ![u] = user]
          /\ UNCHANGED <<issued, events>>
     ELSE /\ orgs' = [orgs EXCEPT ![o] = [organization EXCEPT !.usage.users = 1]]
          /\ users' = [users EXCEPT ![u] = user]
          /\ issued' = issued \cup {Issue(user._id, organization._id, now)}
          /\ events' = events + 1
          /\ req' = Send([r EXCEPT !.setCookie = token],
                         Res(201, "Registration successful"))
  /\ UNCHANGED <<now, charges, cleared, regs, call, ui>>

(* ------------------------------ requests ------------------------------ *)
\* the tokens clients hold
Held == {i.token : i \in issued}

\* a held token with its signature altered, or signed with another secret
Tampered(t) == [t EXCEPT !.key = OtherSecret]

CookieChoices ==
  {NoToken, EmptyToken, MalformedToken} \cup Held \cup {Tampered(t) : t \in Held}

HeaderChoices ==
  {NoHeader}
    \cup {Header("Bearer ", t) : t \in Held}
    \cup {Header("Basic t", t) : t \in Held}

\* the request has been answered and the save auth started has settled
Finished(r) == r.sent > 0 /\ r.update \notin {"saving", "failing"}

\* a request arrives on a route
NewRequest(route, cookie, header) ==
  /\ req = Idle
  /\ req' = NewReq(Chain(route), route, cookie, header)
  /\ UNCHANGED <<now, users, orgs, issued, events, charges, cleared, regs, call, ui>>

\* the response has been delivered, and the save that auth started has
\* settled: the record of the request is dropped
EndRequest ==
  /\ Finished(req)
  /\ req # Idle
  /\ req' = Idle
  /\ UNCHANGED <<now, users, orgs, issued, events, charges, cleared, regs, call, ui>>

(* ---------------------------- environment ----------------------------- *)
\* The middleware after auth and the start of the handler run in the same
\* turn of the event loop as the end of auth, so the clock and the store
\* change between requests.
\* Date.now() advances
Tick(d) ==
  /\ req = Idle
  /\ req' = Idle
  /\ events < MaxEvents
  /\ now <= Horizon - d
  /\ now' = now + d
  /\ events' = events + 1
  /\ UNCHANGED <<users, orgs, issued, charges, cleared, regs, call, ui>>

\* an administrator deactivates or reactivates an account
SetUserActive(u, b) ==
  /\ req = Idle
  /\ req' = Idle
  /\ events < MaxEvents
  /\ users[u]._id # 0 /\ users[u].isActive # b
  /\ users' = [users EXCEPT ![u].isActive = b]
  /\ events' = events + 1
  /\ UNCHANGED <<now, orgs, issued, charges, cleared, regs, call, ui>>

\* an account document is removed from the store
RemoveUser(u) ==
  /\ req = Idle
  /\ req' = Idle
  /\ events < MaxEvents
  /\ users[u]._id # 0
  /\ users' = [users EXCEPT ![u] = NoUserDoc]
  /\ events' = events + 1
  /\ UNCHANGED <<now, orgs, issued, charges, cleared, regs, call, ui>>

\* an organization is deactivated or reactivated
SetOrgActive(o, b) ==
  /\ req = Idle
  /\ req' = Idle
  /\ events < MaxEvents
  /\ orgs[o]._id # 0 /\ orgs[o].isActive # b
  /\ orgs' = [orgs EXCEPT ![o].isActive = b]
  /\ events' = events + 1
  /\ UNCHANGED <<now, users, issued, charges, cleared, regs, call, ui>>

\* an organization document is removed from the store
RemoveOrg(o) ==
  /\ req = Idle
  /\ req' = Idle
  /\ events < MaxEvents
  /\ orgs[o]._id # 0
  /\ orgs' = [orgs EXCEPT ![o] = NoOrgDoc]
  /\ events' = events + 1
  /\ UNCHANGED <<now, users, issued, charges, cleared, regs, call, ui>>

Outcomes == {"ok", "error"}
UpdateOutcomes == {"ok", "throw", "reject"}

Next ==
  \/ \E route \in Routes, cookie \in CookieChoices, header \in HeaderChoices :
       NewRequest(route, cookie, header)
  \/ \E dbUser \in Outcomes, dbOrg \in Outcomes, upd \in UpdateOutcomes :
       auth(dbUser, dbOrg, upd)
  \/ updateLastActive
  \/ Authorize
  \/ CheckAICredits
  \/ Handler
  \/ EndRequest
  \/ \E email \in {Email(u) : u \in UserIds} \cup {"nobody@none.io"},
        valid \in BOOLEAN, pwOk \in BOOLEAN, saveOk \in BOOLEAN :
       Login(email, valid, pwOk, saveOk)
  \/ \E d \in ClockSteps : Tick(d)
  \/ \E u \in UserIds, b \in BOOLEAN : SetUserActive(u, b)
  \/ \E u \in UserIds : RemoveUser(u)
  \/ \E o \in OrgIds, b \in BOOLEAN : SetOrgActive(o, b)
  \/ \E o \in OrgIds : RemoveOrg(o)

Spec == Init /\ [][Next]_vars

(* --------------------- the gates on their own ------------------------- *)
\* the contexts and tenant records a gate can find on a request
Contexts ==
  {NoCtx} \cup
  {[present |-> TRUE, userId |-> u, organizationId |-> o, role |-> role,
    email |-> Email(u)] : u \in UserIds, o \in {1}, role \in Roles}

TenantRecords ==
  {NoOrgDoc} \cup
  {[_id |-> 1, slug |-> <<"a">>, isActive |-> TRUE,
    subscription |-> [plan |-> plan, status |-> status],
    limits |-> [aiCredits |-> limit],
    usage |-> [aiCredits |-> used, users |-> 1]] :
     plan \in Plans, status \in Statuses, limit \in {-1, 1000},
     used \in {0, 990, 995, 1000}}

GateChoices ==
  {GateAuthorize(roles) : roles \in SUBSET Roles}
    \cup {GateCheckSubscription(plan) : plan \in Plans}
    \cup {GateCheckAICredits(n) : n \in {1, 10}}

\* a request that reaches one gate with any context and any gate parameter
GateInit ==
  /\ now = 0
  /\ users = SeedUsers
  /\ orgs = SeedOrgs
  /\ issued = {}
  /\ events = 0
  /\ charges = <<>>
  /\ cleared = {}
  /\ regs = <<>>
  /\ call = <<>>
  /\ ui = <<>>
  /\ \E g \in GateChoices, ctx \in Contexts, organization \in TenantRecords :
       req = [NewReq(<<g>>, "gate", NoToken, NoHeader) EXCEPT
                !.user = ctx, !.organization = organization]

GateNext == Authorize \/ CheckSubscription \/ CheckAICredits

GateSpec == GateInit /\ [][GateNext]_vars

(* ------------------------ metered operations -------------------------- *)
\* The usage record is written by the collaborator that accounts for a
\* completed metered operation; the handlers of the repository leave it alone.
\* a tenant with a remainder equal to the cost of one operation
QuotaInit ==
  /\ now = 0
  /\ users = SeedUsers
  /\ orgs = [SeedOrgs EXCEPT ![2].usage.aiCredits = 990]
  /\ issued = {}
  /\ req = Idle
  /\ events = 0
  /\ charges = <<>>
  /\ cleared = {}
  /\ regs = <<>>
  /\ call = <<>>
  /\ ui = <<>>

\* POST /predict passed auth and checkAICredits(10): the operation completes,
\* the response is sent and the cost of the operation is handed over to be
\* put on the tenant's usage record
MeteredOperation ==
  /\ req.sent = 0
  /\ req.pos = Len(req.chain) + 1
  /\ req.route = "predict"
  /\ req' = Send(Ran(req, "handler"), Res(200, "Success"))
  /\ charges' = Append(charges,
                       [organizationId |-> req.organization._id,
                        credits |-> req.chain[Len(req.chain)].creditsRequired])
  /\ events' = events + 1
  /\ UNCHANGED <<now, users, orgs, issued, cleared, regs, call, ui>>

\* the cost of a completed operation is added to the tenant's usage record
IncrementUsage ==
  /\ charges # <<>>
  /\ LET c == Head(charges) IN
       orgs' = [orgs EXCEPT ![c.organizationId].usage.aiCredits = @ + c.credits]
  /\ charges' = Tail(charges)
  /\ UNCHANGED <<now, users, issued, req, events, cleared, regs, call, ui>>

QuotaNext ==
  \/ \E email \in {Email(u) : u \in UserIds} \cup {"nobody@none.io"},
        valid \in BOOLEAN, pwOk \in BOOLEAN, saveOk \in BOOLEAN :
       Login(email, valid, pwOk, saveOk)
  \/ \E cookie \in CookieChoices, header \in HeaderChoices :
       events < MaxEvents /\ NewRequest("predict", cookie, header)
  \/ \E dbUser \in Outcomes, dbOrg \in Outcomes, upd \in UpdateOutcomes :
       auth(dbUser, dbOrg, upd)
  \/ updateLastActive
  \/ CheckAICredits
  \/ MeteredOperation
  \/ EndRequest
  \/ IncrementUsage

QuotaSpec == QuotaInit /\ [][QuotaNext]_vars

(* --------------------------- the four gates --------------------------- *)
\* the requests of the routes, and requests that reach one gate with any
\* context and any gate parameter
PipelineInit == Init \/ GateInit

PipelineNext == Next \/ CheckSubscription

PipelineSpec == PipelineInit /\ [][PipelineNext]_vars

(* ------------------------------- logout ------------------------------- *)
LogoutNext ==
  \/ Next
  \/ \E t \in Held : Logout(t)

LogoutSpec == Init /\ [][LogoutNext]_vars

(* ---------------------------- registration ---------------------------- *)
\* the store before the first registration
EmptyInit ==
  /\ now = 0
  /\ users = [u \in UserIds |-> NoUserDoc]
  /\ orgs = [o \in OrgIds |-> NoOrgDoc]
  /\ issued = {}
  /\ req = Idle
  /\ events = 0
  /\ charges = <<>>
  /\ cleared = {}
  /\ regs = <<>>
  /\ call = <<>>
  /\ ui = <<>>

RegisterNext ==
  \/ \E email \in {Email(u) : u \in UserIds}, name \in RegNames, valid \in BOOLEAN,
        orgSave \in Outcomes, userSave \in Outcomes, usageSave \in Outcomes :
       Register(email, name, valid, orgSave, userSave, usageSave)
  \/ \E email \in {Email(u) : u \in UserIds} \cup {"nobody@none.io"},
        valid \in BOOLEAN, pwOk \in BOOLEAN, saveOk \in BOOLEAN :
       Login(email, valid, pwOk, saveOk)
  \/ \E route \in Routes, cookie \in CookieChoices, header \in HeaderChoices :
       NewRequest(route, cookie, header)
  \/ \E dbUser \in Outcomes, dbOrg \in Outcomes, upd \in UpdateOutcomes :
       auth(dbUser, dbOrg, upd)
  \/ updateLastActive
  \/ Authorize
  \/ CheckAICredits
  \/ Handler
  \/ EndRequest

RegisterSpec == EmptyInit /\ [][RegisterNext]_vars

(* ----------------------- a call of generateSlug ---------------------- *)
\* generateSlug(name) is called with some tenants in the store
SlugInit ==
  /\ now = 0
  /\ users = SeedUsers
  /\ orgs = SeedOrgs
  /\ issued = {}
  /\ req = Idle
  /\ events = 0
  /\ charges = <<>>
  /\ cleared = {}
  /\ regs = <<>>
  /\ ui = <<>>
  /\ \E name \in Names, existing \in SUBSET SlugPool :
       call = SlugCall(name, existing)

generateSlug ==
  /\ call.pc = "loop"
  /\ call' = generateSlugStep(call)
  /\ UNCHANGED <<now, users, orgs, issued, req, events, charges, cleared, regs, ui>>

SlugNext == generateSlug

SlugSpec == SlugInit /\ [][SlugNext]_vars /\ WF_vars(SlugNext)

(* ---------------------- register requests at once --------------------- *)
\* The handler of POST /register gives way at each await; two requests are
\* served at once, each at its own await.
RegIds == {1, 2}

IdleReg ==
  [pc |-> "idle", email |-> "", name |-> <<>>, slug |-> <<>>, orgId |-> 0,
   userId |-> 0, emailInUse |-> FALSE, res |-> NoRes, setCookie |-> NoToken]

\* faulty variant of SlugIndexRejects: the collection has no unique index on slug
SlugIndexAbsent(slug) == FALSE

\* the unique index on Organization.slug refuses a save with a slug in use
SlugIndexRejects(slug) == slug \in Slugs

\* the unique index on User.email refuses a save with an email in use
EmailIndexRejects(email) == FindUserByEmail(email)._id # 0

RaceInit ==
  /\ now = 0
  /\ users = [u \in UserIds |-> NoUserDoc]
  /\ orgs = [o \in OrgIds |-> NoOrgDoc]
  /\ issued = {}
  /\ req = Idle
  /\ events = 0
  /\ charges = <<>>
  /\ cleared = {}
  /\ regs = [k \in RegIds |-> IdleReg]
  /\ call = <<>>
  /\ ui = <<>>

\* a valid register request arrives
RegArrive(k, email, name) ==
  /\ regs[k].pc = "idle"
  /\ regs' = [regs EXCEPT ![k] = [IdleReg EXCEPT !.pc = "findByEmail",
                                                !.email = email, !.name = name]]
  /\ UNCHANGED <<now, users, orgs, issued, req, events, charges, cleared, call, ui>>

\* const existingUser = await User.findByEmail(email)
RegFindByEmail(k) ==
  /\ regs[k].pc = "findByEmail"
  /\ regs' = [regs EXCEPT ![k] =
       IF FindUserByEmail(regs[k].email)._id # 0
       THEN [@ EXCEPT !.pc = "done", !.emailInUse = TRUE,
                      !.res = Res(400, "User already exists with this email")]
       ELSE [@ EXCEPT !.pc = "generateSlug"]]
  /\ UNCHANGED <<now, users, orgs, issued, req, events, charges, cleared, call, ui>>

\* const orgSlug = await generateSlug(organizationName)
RegGenerateSlug(k) ==
  /\ regs[k].pc = "generateSlug"
  /\ regs' = [regs EXCEPT ![k].pc = "saveOrganization",
                          ![k].slug = slugLoop(SlugCall(regs[k].name, Slugs))]
  /\ UNCHANGED <<now, users, orgs, issued, req, events, charges, cleared, call, ui>>

\* await organization.save()
RegSaveOrganization(k) ==
  /\ regs[k].pc = "saveOrganization"
  /\ FreeOrgIds # {}
  /\ LET o == CHOOSE id \in FreeOrgIds : \A other \in FreeOrgIds : id >= other IN
     IF SlugIndexRejects(regs[k].slug)
     THEN /\ regs' = [regs EXCEPT ![k].pc = "done",
                                  ![k].res = Res(500, "Registration failed")]
          /\ orgs' = orgs
     ELSE /\ regs' = [regs EXCEPT ![k].pc = "saveUser", ![k].orgId = o]
          /\ orgs' = [orgs EXCEPT ![o] = NewOrganization(o, regs[k].slug)]
  /\ UNCHANGED <<now, users, issued, req, events, charges, cleared, call, ui>>

\* await user.save()
RegSaveUser(k) ==
  /\ regs[k].pc = "saveUser"
  /\ FreeUserIds # {}
  /\ LET u == CHOOSE id \in FreeUserIds : \A other \in FreeUserIds : id <= other IN
     IF EmailIndexRejects(regs[k].email)
     THEN /\ regs' = [regs EXCEPT ![k].pc = "done", ![k].emailInUse = TRUE,
                                  ![k].res = Res(500, "Registration failed")]
          /\ users' = users
     ELSE /\ regs' = [regs EXCEPT ![k].pc = "saveUsage", ![k].userId = u]
          /\ users' = [users EXCEPT ![u] = NewUser(u, regs[k].email, regs[k].orgId)]
  /\ UNCHANGED <<now, orgs, issued, req, events, charges, cleared, call, ui>>

\* organization.usage.users = 1; await organization.save(); the token, the
\* cookie and the 201
RegSaveUsage(k) ==
  /\ regs[k].pc = "saveUsage"
  /\ orgs' = [orgs EXCEPT ![regs[k].orgId].usage.users = 1]
  /\ issued' = issued \cup {Issue(regs[k].userId, regs[k].orgId, now)}
  /\ regs' = [regs EXCEPT ![k].pc = "done",
                          ![k].setCookie = generateToken(regs[k].userId, regs[k].orgId, now),
                          ![k].res = Res(201, "Registration successful")]
  /\ UNCHANGED <<now, users, req, events, charges, cleared, call, ui>>

RaceNext ==
  \/ \E k \in RegIds, email \in {Email(u) : u \in UserIds}, name \in RegNames :
       RegArrive(k, email, name)
  \/ \E k \in RegIds : RegFindByEmail(k)
  \/ \E k \in RegIds : RegGenerateSlug(k)
  \/ \E k \in RegIds : RegSaveOrganization(k)
  \/ \E k \in RegIds : RegSaveUser(k)
  \/ \E k \in RegIds : RegSaveUsage(k)

RaceSpec == RaceInit /\ [][RaceNext]_vars

(* -------------------------- retryWithBackoff --------------------------- *)
\* Math.pow(2, i)
RECURSIVE Pow2(_)
Pow2(i) == IF i = 0 THEN 1 ELSE 2 * Pow2(i - 1)

BaseDelays == {0, 1, 250, 1000, 2000}

\* what a successful fn() resolves to
Values == {"a", "b"}

\* faulty variant of retryAttempt: the last attempt is told by i === maxRetries
retryAttemptLate(c, ok, value) ==
  IF ok
  THEN [c EXCEPT !.calls = @ + 1, !.pc = "returned", !.result = value]
  ELSE IF c.i = c.maxRetries
       THEN [c EXCEPT !.calls = @ + 1, !.lastError = c.calls + 1, !.pc = "thrown",
                      !.thrown = c.calls + 1]
       ELSE [c EXCEPT !.calls = @ + 1, !.lastError = c.calls + 1, !.pc = "delay",
                      !.delayTime = c.baseDelay * Pow2(c.i)]

\* one turn of the for loop up to its await: return await fn(), or the catch
\* block.  The error of the n-th call of fn is written n.
retryAttempt(c, ok, value) ==
  IF ok
  THEN [c EXCEPT !.calls = @ + 1, !.pc = "returned", !.result = value]
  ELSE IF c.i = c.maxRetries - 1
       THEN [c EXCEPT !.calls = @ + 1, !.lastError = c.calls + 1, !.pc = "thrown",
                      !.thrown = c.calls + 1]
       ELSE [c EXCEPT !.calls = @ + 1, !.lastError = c.calls + 1, !.pc = "delay",
                      !.delayTime = c.baseDelay * Pow2(c.i)]

\* retryWithBackoff(fn, maxRetries, baseDelay) is called
RetryInit ==
  /\ now = 0
  /\ users = SeedUsers
  /\ orgs = SeedOrgs
  /\ issued = {}
  /\ req = Idle
  /\ events = 0
  /\ charges = <<>>
  /\ cleared = {}
  /\ regs = <<>>
  /\ ui = <<>>
  /\ \E maxRetries \in 1..MaxRetries, baseDelay \in BaseDelays :
       call = [fn |-> "retryWithBackoff", maxRetries |-> maxRetries,
               baseDelay |-> baseDelay, i |-> 0, calls |-> 0, lastError |-> 0,
               delayTime |-> 0, waits |-> <<>>, result |-> "", thrown |-> 0,
               pc |-> "try"]

\* try { return await fn() } catch (error) { ... }
RetryAttempt(ok, value) ==
  /\ call.pc = "try"
  /\ call' = retryAttempt(call, ok, value)
  /\ UNCHANGED <<now, users, orgs, issued, req, events, charges, cleared, regs, ui>>

\* await delay(delayTime); i++; and the test i < maxRetries of the loop
RetryDelay ==
  /\ call.pc = "delay"
  /\ call' = [call EXCEPT !.waits = Append(@, call.delayTime), !.i = @ + 1,
                          !.pc = IF call.i + 1 < call.maxRetries THEN "try" ELSE "thrown",
                          !.thrown = IF call.i + 1 < call.maxRetries THEN 0
                                     ELSE call.lastError]
  /\ UNCHANGED <<now, users, orgs, issued, req, events, charges, cleared, regs, ui>>

RetryNext ==
  \/ \E ok \in BOOLEAN, value \in Values : RetryAttempt(ok, value)
  \/ RetryDelay

RetrySpec == RetryInit /\ [][RetryNext]_vars

(* ===================== the frontend AuthProvider ====================== *)
\* calls of the provider's functions that can be awaiting a response at once
MaxInFlight == 2
CallIds == 1..MaxInFlight

\* no call occupies the slot
IdleCall == [op |-> "none", pc |-> "idle", cookie |-> 0, before |-> {},
             stale |-> FALSE]

\* AuthData of an account: its user and the organization it belongs to
AuthData(account) ==
  [user |-> account, organization |-> SeedUsers[account].organizationId]

\* const isAuthenticated = !!user
isAuthenticated(u) == u.user # 0

\* ProtectedRoute: the spinner while loading, the redirect to /login without
\* a user, the children otherwise
ProtectedRoute(u) ==
  IF u.isLoading THEN "LoadingSpinner"
  ELSE IF u.user = 0 THEN "Navigate /login"
  ELSE "children"

\* the calls still awaiting a response other than logout calls
InFlight(u) ==
  {j \in CallIds : u.calls[j].pc = "awaiting" /\ u.calls[j].op # "logout"}

\* a call of the provider begins: the request leaves with the session cookie
\* the browser holds; a logout call notes the calls that began before it
BeginCall(u, k, op, loading) ==
  [u EXCEPT !.isLoading = IF loading THEN TRUE ELSE @,
            !.calls[k] = [op |-> op, pc |-> "awaiting", cookie |-> u.cookie,
                          before |-> IF op = "logout" THEN InFlight(u) ELSE {},
                          stale |-> FALSE]]

\* the call in slot k has settled: the slot is free, and no logout call
\* still counts it among the calls that began before it
EndCall(u, k) ==
  [u EXCEPT !.calls = [j \in CallIds |->
                         IF j = k THEN IdleCall
                         ELSE [u.calls[j] EXCEPT !.before = @ \ {k}]]]

\* setUser(authData.user); setOrganization(authData.organization)
setAuth(u, k, authData) ==
  [u EXCEPT !.user = authData.user, !.organization = authData.organization,
            !.loggedOut = IF u.calls[k].stale THEN @ ELSE FALSE]

\* setUser(null); setOrganization(null)
clearAuth(u) == [u EXCEPT !.user = 0, !.organization = 0]

\* the provider is mounted: user and organization are null, isLoading is
\* true, and the effect has called initializeAuth, which awaits
\* authApi.getCurrentUser(); the browser may or may not hold a session
UiInit ==
  /\ now = 0
  /\ users = SeedUsers
  /\ orgs = SeedOrgs
  /\ issued = {}
  /\ req = Idle
  /\ events = 0
  /\ charges = <<>>
  /\ cleared = {}
  /\ regs = <<>>
  /\ call = <<>>
  /\ \E cookie \in {0} \cup UserIds :
       ui = BeginCall([user |-> 0, organization |-> 0, isLoading |-> TRUE,
                       cookie |-> cookie, loggedOut |-> FALSE,
                       calls |-> [k \in CallIds |-> IdleCall]],
                      1, "initializeAuth", FALSE)

\* login(email, password): setIsLoading(true), then await authApi.login
login(k) ==
  /\ ui.calls[k].pc = "idle"
  /\ ui' = BeginCall(ui, k, "login", TRUE)
  /\ UNCHANGED <<now, users, orgs, issued, req, events, charges, cleared, regs, call>>

\* register(data): setIsLoading(true), then await authApi.register
register(k) ==
  /\ ui.calls[k].pc = "idle"
  /\ ui' = BeginCall(ui, k, "register", TRUE)
  /\ UNCHANGED <<now, users, orgs, issued, req, events, charges, cleared, regs, call>>

\* logout(): setIsLoading(true), then await authApi.logout
logout(k) ==
  /\ ui.calls[k].pc = "idle"
  /\ ui' = BeginCall(ui, k, "logout", TRUE)
  /\ UNCHANGED <<now, users, orgs, issued, req, events, charges, cleared, regs, call>>

\* refreshUser(): await authApi.getCurrentUser
refreshUser(k) ==
  /\ ui.calls[k].pc = "idle"
  /\ ui' = BeginCall(ui, k, "refreshUser", FALSE)
  /\ UNCHANGED <<now, users, orgs, issued, req, events, charges, cleared, regs, call>>

\* initializeAuth resumes after authApi.getCurrentUser(): the data of the
\* session the request carried, or a rejection that is only logged; finally
\* setIsLoading(false)
initializeAuthSettles(k, ok) ==
  /\ ui.calls[k].pc = "awaiting" /\ ui.calls[k].op = "initializeAuth"
  /\ ok => ui.calls[k].cookie # 0
  /\ LET u == IF ok THEN setAuth(ui, k, AuthData(ui.calls[k].cookie)) ELSE ui
     IN ui' = EndCall([u EXCEPT !.isLoading = FALSE], k)
  /\ UNCHANGED <<now, users, orgs, issued, req, events, charges, cleared, regs, call>>

\* refreshUser resumes after authApi.getCurrentUser(): the data of the
\* session the request carried, or a rejection, which clears the state
refreshUserSettles(k, ok) ==
  /\ ui.calls[k].pc = "awaiting" /\ ui.calls[k].op = "refreshUser"
  /\ ok => ui.calls[k].cookie # 0
  /\ LET u == IF ok THEN setAuth(ui, k, AuthData(ui.calls[k].cookie))
              ELSE clearAuth(ui)
     IN ui' = EndCall(u, k)
  /\ UNCHANGED <<now, users, orgs, issued, req, events, charges, cleared, regs, call>>

\* login resumes after authApi.login(): the data of the account that signed
\* in, whose session cookie the browser now holds, or a rejection that is
\* rethrown; finally setIsLoading(false)
loginSettles(k, ok, account) ==
  /\ ui.calls[k].pc = "awaiting" /\ ui.calls[k].op = "login"
  /\ LET u == IF ok THEN [setAuth(ui, k, AuthData(account)) EXCEPT !.cookie = account]
              ELSE ui
     IN ui' = EndCall([u EXCEPT !.isLoading = FALSE], k)
  /\ UNCHANGED <<now, users, orgs, issued, req, events, charges, cleared, regs, call>>

\* register resumes after authApi.register(): as login
registerSettles(k, ok, account) ==
  /\ ui.calls[k].pc = "awaiting" /\ ui.calls[k].op = "register"
  /\ LET u == IF ok THEN [setAuth(ui, k, AuthData(account)) EXCEPT !.cookie = account]
              ELSE ui
     IN ui' = EndCall([u EXCEPT !.isLoading = FALSE], k)
  /\ UNCHANGED <<now, users, orgs, issued, req, events, charges, cleared, regs, call>>

\* logout resumes after authApi.logout(): the state is cleared whether the
\* call succeeded (the session cookie is gone) or was rejected; finally
\* setIsLoading(false). The calls that began before this logout and still
\* await their response are from now on stale.
logoutSettles(k, ok) ==
  /\ ui.calls[k].pc = "awaiting" /\ ui.calls[k].op = "logout"
  /\ LET u == [clearAuth(ui) EXCEPT
                 !.cookie = IF ok THEN 0 ELSE @,
                 !.isLoading = FALSE,
                 !.loggedOut = TRUE,
                 !.calls = [j \in CallIds |->
                              IF j \in ui.calls[k].before
                              THEN [ui.calls[j] EXCEPT !.stale = TRUE]
                              ELSE ui.calls[j]]]
     IN ui' = EndCall(u, k)
  /\ UNCHANGED <<now, users, orgs, issued, req, events, charges, cleared, regs, call>>

UiNext ==
  \/ \E k \in CallIds : login(k)
  \/ \E k \in CallIds : register(k)
  \/ \E k \in CallIds : logout(k)
  \/ \E k \in CallIds : refreshUser(k)
  \/ \E k \in CallIds, ok \in BOOLEAN : initializeAuthSettles(k, ok)
  \/ \E k \in CallIds, ok \in BOOLEAN : refreshUserSettles(k, ok)
  \/ \E k \in CallIds, ok \in BOOLEAN, account \in UserIds : loginSettles(k, ok, account)
  \/ \E k \in CallIds, ok \in BOOLEAN, account \in UserIds : registerSettles(k, ok, account)
  \/ \E k \in CallIds, ok \in BOOLEAN : logoutSettles(k, ok)

UiSpec == UiInit /\ [][UiNext]_vars

(* ====================== properties of the pipeline ===================== *)
\* auth has run on the request being served
AuthRan == Len(req.ran) >= 1 /\ req.ran[1] = "auth"

\* auth called next()
AuthForwarded == AuthRan /\ req.nextCalls >= 1

\* auth answered the request itself
AuthRejected == AuthRan /\ req.nextCalls = 0 /\ req.sent = 1

\* the Authorization header is a Bearer header
BearerHeader(h) == h.present /\ h.prefix = "Bearer "

\* the token has the structure of a JWT and is signed with the server's secret
WellSigned(token) == token.kind = "jwt" /\ token.key = JWT_SECRET

\* the token's expiry has passed on the clock t (ms)
Expired(token, t) == t \div 1000 >= token.exp

\* nothing was attached to the request
NothingAttached == req.user = NoCtx /\ req.organization = NoOrgDoc

\* C1: when the request carries a (non-empty) cookie token, that token is the
\* one auth verifies and the response is the one the cookie token earns, also
\* when the cookie token is invalid and the header carries a valid token; a
\* header token is used only when no cookie token is there.
CookieTokenWins ==
  AuthRan =>
    /\ ~Falsy(req.cookies) => req.token = req.cookies
    /\ ~Falsy(req.cookies) /\ ~WellSigned(req.cookies)
         => req.res = Res(401, MsgInvalid) /\ req.nextCalls = 0
    /\ req.token # req.cookies
         => Falsy(req.cookies) /\ BearerHeader(req.headers)
            /\ req.token = req.headers.rest

\* an invalid cookie token next to a valid Bearer token: rejected
CookieTokenWinsWitness ==
  /\ AuthRan
  /\ req.cookies.kind = "jwt" /\ ~WellSigned(req.cookies)
  /\ BearerHeader(req.headers) /\ WellSigned(req.headers.rest)
  /\ ~Expired(req.headers.rest, req.at)
  /\ users[req.headers.rest.userId].isActive
  /\ orgs[req.headers.rest.organizationId].isActive
  /\ req.res = Res(401, MsgInvalid)

\* C2: with no cookie token and no Authorization header that starts with
\* 'Bearer ', auth answers 401, does not call next, looks nothing up in the
\* store and attaches nothing.
NoTokenRejected ==
  AuthRan /\ Falsy(req.cookies) /\ ~BearerHeader(req.headers) =>
    /\ req.res = Res(401, MsgNoToken)
    /\ req.sent = 1
    /\ req.nextCalls = 0
    /\ req.lookups = 0
    /\ NothingAttached

\* a valid token under another scheme, and no cookie: rejected
NoTokenRejectedWitness ==
  /\ AuthRan
  /\ Falsy(req.cookies)
  /\ req.headers.present /\ req.headers.prefix # "Bearer "
  /\ WellSigned(req.headers.rest) /\ ~Expired(req.headers.rest, req.at)
  /\ req.res.status = 401

\* C3: a token with a wrong signature or a malformed structure gets 401
\* 'Invalid token.', a well-signed token past its expiry gets 401 'Token
\* expired.', and each message is given for its own failure only.
VerifyFailuresDistinct ==
  AuthRan /\ ~Falsy(req.token) =>
    /\ ~WellSigned(req.token) => req.res = Res(401, MsgInvalid)
    /\ WellSigned(req.token) /\ Expired(req.token, req.at)
         => req.res = Res(401, MsgExpired)
    /\ req.res.message = MsgInvalid => ~WellSigned(req.token)
    /\ req.res.message = MsgExpired
         => WellSigned(req.token) /\ Expired(req.token, req.at)

\* a token that was issued by the server and has expired is presented
VerifyFailuresDistinctWitness ==
  /\ AuthRan
  /\ req.token \in {i.token : i \in issued}
  /\ req.res = Res(401, MsgExpired)

\* C4 as stated: a token that generateToken issued verifies to the ids it was
\* issued for at every time before 7 days after its issue, and is expired at
\* every time after.
RoundTripSevenDays ==
  \A i \in issued :
    AuthRan /\ req.token = i.token =>
      /\ req.at < i.at + SevenDays * 1000
           => /\ req.decoded.error = "none"
              /\ req.decoded.userId = i.userId
              /\ req.decoded.organizationId = i.organizationId
      /\ req.at > i.at + SevenDays * 1000
           => req.decoded.error = "TokenExpiredError"

\* C4, amended: the token verifies to the ids it was issued for while the
\* clock's whole second is below the whole second of its issue plus 7 days, and
\* is expired from that second on.
RoundTripWholeSeconds ==
  \A i \in issued :
    AuthRan /\ req.token = i.token =>
      /\ req.at \div 1000 < i.at \div 1000 + SevenDays
           => /\ req.decoded.error = "none"
              /\ req.decoded.userId = i.userId
              /\ req.decoded.organizationId = i.organizationId
      /\ req.at \div 1000 >= i.at \div 1000 + SevenDays
           => req.decoded.error = "TokenExpiredError"

\* a token verifies to its ids half a second before its last whole second ends
RoundTripWitness ==
  \E i \in issued :
    /\ AuthRan /\ req.token = i.token
    /\ req.at > i.at
    /\ req.decoded.error = "none"
    /\ req.decoded.userId = i.userId
    /\ req.decoded.userId # req.decoded.organizationId

\* C5: a token signed with another secret fails with 'Invalid token.' and
\* never with 'Token expired.', also when its expiry has passed.
WrongSecretIsInvalid ==
  AuthRan /\ req.token.kind = "jwt" /\ req.token.key # JWT_SECRET =>
    /\ req.decoded.error = "JsonWebTokenError"
    /\ req.res = Res(401, MsgInvalid)

\* a token signed with another secret whose expiry has passed
WrongSecretIsInvalidWitness ==
  /\ AuthRan
  /\ req.token.kind = "jwt" /\ req.token.key # JWT_SECRET
  /\ Expired(req.token, req.at)
  /\ req.res.status = 401

\* the token verified and both store lookups, when made, answered
LookupsAnswered == AuthRan /\ req.decoded.error = "none" /\ req.thrown # "MongoError"

\* the account, or the organization, the verified token names is missing
\* or inactive
AccountGone ==
  users[req.decoded.userId]._id = 0 \/ ~users[req.decoded.userId].isActive
TenantGone ==
  orgs[req.decoded.organizationId]._id = 0
    \/ ~orgs[req.decoded.organizationId].isActive

\* C6: with a valid token, a missing or inactive account is answered 401
\* before the organization is looked up, and a missing or inactive
\* organization is answered 401; neither calls next nor attaches anything,
\* and not-found and inactive get the same response.
GoneIsRejected ==
  LookupsAnswered =>
    /\ AccountGone
         => /\ req.res = Res(401, MsgUser)
            /\ req.lookups = 1
            /\ req.nextCalls = 0
            /\ NothingAttached
    /\ ~AccountGone /\ TenantGone
         => /\ req.res = Res(401, MsgOrg)
            /\ req.lookups = 2
            /\ req.nextCalls = 0
            /\ NothingAttached

\* a deactivated account whose organization is gone too: the account decides
GoneIsRejectedWitness ==
  /\ LookupsAnswered
  /\ users[req.decoded.userId]._id # 0 /\ ~users[req.decoded.userId].isActive
  /\ TenantGone
  /\ req.res = Res(401, MsgUser)

\* C7 as stated: with a valid token, an active account and an active
\* organization, the request is forwarded whatever becomes of the update of
\* the last-active timestamp.
UpdateIsBestEffort ==
  LookupsAnswered /\ ~AccountGone /\ ~TenantGone =>
    /\ req.nextCalls >= 1
    /\ req.user.present
    /\ req.res.status # 500

\* C8: when auth forwards, the request carries the context of the token's
\* account (its id, and the role and email of the stored account) and the
\* full record of the token's organization; when auth rejects, with 401 or
\* 500, nothing is attached.
ContextOnlyOnSuccess ==
  /\ AuthForwarded =>
       /\ req.user = [present |-> TRUE,
                      userId |-> req.token.userId,
                      organizationId |-> req.token.organizationId,
                      role |-> users[req.token.userId].role,
                      email |-> users[req.token.userId].email]
       /\ req.organization = orgs[req.token.organizationId]
  /\ AuthRejected => req.res.status \in {401, 500} /\ NothingAttached

\* auth forwards the request of a staff account
ContextOnlyOnSuccessWitness ==
  /\ AuthForwarded
  /\ req.user.role = "staff"
  /\ req.organization._id = req.token.organizationId

(* ======================= properties of the gates ======================= *)
\* a gate has run on the request
GateRan(g) == Len(req.ran) >= 1 /\ req.ran[Len(req.ran)] = g

\* the middleware that ran last
LastGate == req.chain[Len(req.ran)]

\* C9: authorize answers 401 when no context is attached, 403 when the
\* context's role is not in the allowed set, and forwards exactly when it is,
\* whatever the other fields of the context and the request are.
AuthorizeByRoleOnly ==
  GateRan("authorize") =>
    /\ ~req.user.present
         => req.res = Res(401, MsgAuthRequired) /\ req.nextCalls = 0
    /\ req.user.present /\ req.user.role \notin LastGate.roles
         => req.res = Res(403, MsgForbidden) /\ req.nextCalls = 0
    /\ req.user.present /\ req.user.role \in LastGate.roles
         => req.res = NoRes /\ req.sent = 0 /\ req.nextCalls = 1

\* no context on the request: 401
AuthorizeByRoleOnlyWitness ==
  /\ GateRan("authorize")
  /\ ~req.user.present
  /\ "admin" \in LastGate.roles
  /\ req.res.status = 401

\* C10: a tenant whose subscription is not active fails checkSubscription
\* with SUBSCRIPTION_REQUIRED, never with PLAN_UPGRADE_REQUIRED, whatever its
\* plan and the required plan.
StatusBeforeTier ==
  GateRan("checkSubscription") /\ req.organization._id # 0
    /\ req.organization.subscription.status # "active" =>
      /\ req.res.status = 403
      /\ req.res.code = "SUBSCRIPTION_REQUIRED"
      /\ req.nextCalls = 0

\* a past-due tenant on a plan below the required one
StatusBeforeTierWitness ==
  /\ GateRan("checkSubscription")
  /\ req.organization.subscription.status = "past_due"
  /\ req.organization.subscription.plan = "starter"
  /\ LastGate.requiredPlan = "enterprise"
  /\ req.res.code = "SUBSCRIPTION_REQUIRED"

\* the order starter < business < enterprise, as positions
TierRank(plan) == CHOOSE i \in 1..3 : <<"starter", "business", "enterprise">>[i] = plan

\* C11: for a tenant with an active subscription checkSubscription forwards
\* exactly when the current plan is at or above the required plan in the order
\* starter < business < enterprise, and otherwise answers 403
\* PLAN_UPGRADE_REQUIRED with the required and the current plan.
TierOrderDecides ==
  GateRan("checkSubscription") /\ req.organization._id # 0
    /\ req.organization.subscription.status = "active" =>
      LET currentPlan == req.organization.subscription.plan
          requiredPlan == LastGate.requiredPlan
      IN IF TierRank(currentPlan) >= TierRank(requiredPlan)
         THEN req.nextCalls = 1 /\ req.sent = 0 /\ req.res = NoRes
         ELSE /\ req.nextCalls = 0 /\ req.sent = 1
              /\ req.res.status = 403
              /\ req.res.code = "PLAN_UPGRADE_REQUIRED"
              /\ req.res.requiredPlan = requiredPlan
              /\ req.res.currentPlan = currentPlan

\* an active business tenant is refused an enterprise operation
TierOrderDecidesWitness ==
  /\ GateRan("checkSubscription")
  /\ req.organization.subscription.status = "active"
  /\ req.organization.subscription.plan = "business"
  /\ LastGate.requiredPlan = "enterprise"
  /\ req.res.code = "PLAN_UPGRADE_REQUIRED"
  /\ req.res.currentPlan = "business"

\* C12: for a tenant with a finite allowance checkAICredits answers 403
\* AI_CREDITS_EXHAUSTED exactly when limits.aiCredits - usage.aiCredits is
\* below the cost, with required = the cost and available = that remainder,
\* and forwards when the remainder is equal to or greater than the cost.
QuotaRemainderDecides ==
  GateRan("checkAICredits") /\ req.organization._id # 0
    /\ req.organization.limits.aiCredits # -1 =>
      LET remainder == req.organization.limits.aiCredits
                         - req.organization.usage.aiCredits
          cost == LastGate.creditsRequired
      IN IF remainder < cost
         THEN /\ req.nextCalls = 0 /\ req.sent = 1
              /\ req.res.status = 403
              /\ req.res.code = "AI_CREDITS_EXHAUSTED"
              /\ req.res.required = cost
              /\ req.res.available = remainder
         ELSE req.nextCalls = 1 /\ req.sent = 0 /\ req.res = NoRes

\* limit 1000, usage 995, cost 10: available 5, required 10
QuotaRemainderDecidesWitness ==
  /\ GateRan("checkAICredits")
  /\ req.organization.limits.aiCredits = 1000
  /\ req.organization.usage.aiCredits = 995
  /\ LastGate.creditsRequired = 10
  /\ req.res.code = "AI_CREDITS_EXHAUSTED"
  /\ req.res.available = 5
  /\ req.res.required = 10

\* C13: for a tenant whose limits.aiCredits stands for 'unlimited' (-1)
\* checkAICredits forwards, whatever the usage and the cost.
UnlimitedAlwaysPasses ==
  GateRan("checkAICredits") /\ req.organization._id # 0
    /\ req.organization.limits.aiCredits = -1 =>
      req.nextCalls = 1 /\ req.sent = 0 /\ req.res = NoRes

\* an unlimited tenant with a usage of 1000 passes the gate for cost 10
UnlimitedAlwaysPassesWitness ==
  /\ GateRan("checkAICredits")
  /\ req.organization.limits.aiCredits = -1
  /\ req.organization.usage.aiCredits = 1000
  /\ LastGate.creditsRequired = 10
  /\ req.nextCalls = 1

\* C14: authorize, checkSubscription and checkAICredits change neither the
\* account records, nor the tenant records, nor the context and the tenant
\* record attached to the request, whether they forward or reject.
GatesHaveNoSideEffects ==
  [][Authorize \/ CheckSubscription \/ CheckAICredits =>
       /\ users' = users
       /\ orgs' = orgs
       /\ req'.user = req.user
       /\ req'.organization = req.organization]_vars

\* a tenant with a remainder of 10 has passed checkAICredits for cost 10 and
\* still has usage 990 of 1000 on its record
GatesHaveNoSideEffectsWitness ==
  /\ GateRan("checkAICredits")
  /\ LastGate.creditsRequired = 10
  /\ req.nextCalls = 1
  /\ req.organization.limits.aiCredits = 1000
  /\ req.organization.usage.aiCredits = 990
  /\ orgs = SeedOrgs

TenantCreatedWithAccount ==
  req.route = "register" /\ req.sent = 1 =>
    /\ \A o \in OrgIds : orgs[o]._id # 0 =>
         \E u \in UserIds : users[u]._id # 0 /\ users[u].organizationId = o
    /\ \A u \in UserIds : users[u]._id # 0 => orgs[users[u].organizationId]._id # 0

\* C17: a register request answered 201 has created exactly one tenant and
\* exactly one account, the account refers to that tenant and has the role
\* admin, the tenant's usage.users is 1, and the cookie of the response holds
\* a token for that account id and that tenant id.
RegisterCreatesPair ==
  [][req = Idle /\ req'.route = "register" /\ req'.res.status = 201 =>
       \E o \in OrgIds, u \in UserIds :
         /\ orgs[o]._id = 0 /\ orgs'[o]._id = o
         /\ \A other \in OrgIds \ {o} : orgs'[other] = orgs[other]
         /\ users[u]._id = 0 /\ users'[u]._id = u
         /\ \A other \in UserIds \ {u} : users'[other] = users[other]
         /\ users'[u].organizationId = o
         /\ users'[u].role = "admin"
         /\ orgs'[o].usage.users = 1
         /\ req'.setCookie.kind = "jwt"
         /\ req'.setCookie.key = JWT_SECRET
         /\ req'.setCookie.userId = u
         /\ req'.setCookie.organizationId = o]_vars

\* a second registration has succeeded next to the first one
RegisterCreatesPairWitness ==
  /\ req.route = "register"
  /\ req.res.status = 201
  /\ \A o \in OrgIds : orgs[o]._id # 0 /\ orgs[o].usage.users = 1
  /\ \A u \in UserIds : users[u]._id # 0 /\ users[u].role = "admin"
  /\ req.setCookie.userId = 2
  /\ req.setCookie.organizationId = 1

\* C18: every token issued by register, login or refresh holds the id of an
\* account and the id of the tenant that account belongs to, and when auth
\* forwards a request the tenantId and the tenant record it attached are
\* those of the authenticated account's own tenant.
TokenBindsOwnTenant ==
  /\ \A i \in issued :
       /\ users[i.token.userId]._id = i.token.userId
       /\ users[i.token.userId].organizationId = i.token.organizationId
  /\ AuthForwarded =>
       /\ users[req.user.userId]._id = req.user.userId
       /\ req.user.organizationId = users[req.user.userId].organizationId
       /\ req.organization._id = users[req.user.userId].organizationId

\* with two tenants registered, refresh has issued a token for account 1 of
\* tenant 2 on a request that carried that account's token
TokenBindsOwnTenantWitness ==
  /\ req.route = "refresh"
  /\ req.res.status = 200
  /\ \A o \in OrgIds : orgs[o]._id # 0
  /\ req.user.userId = 1
  /\ req.organization._id = 2
  /\ req.setCookie.userId = 1
  /\ req.setCookie.organizationId = 2

\* C19: logout changes neither the accounts, nor the tenants, nor the tokens
\* issued, and a token whose cookie a logout has cleared still passes auth
\* when it is presented before its expiry for an active account of an active
\* tenant (the store answering the lookups and the update of the last-active
\* time not throwing).
LogoutDoesNotRevoke ==
  /\ [][req = Idle /\ req'.route = "logout" =>
          /\ users' = users /\ orgs' = orgs /\ issued' = issued
          /\ req'.res.status = 200 /\ req'.setCookie = EmptyToken]_vars
  /\ [](AuthRan /\ req.token \in cleared /\ ~Expired(req.token, req.at)
          /\ req.thrown = "none"
          /\ ~UserRejected(users[req.token.userId])
          /\ ~OrgRejected(orgs[req.token.organizationId])
        => /\ AuthForwarded
           /\ req.user.userId = req.token.userId
           /\ req.user.organizationId = req.token.organizationId)

\* after the logout, and close to the end of the seven days, the token comes
\* in a Bearer header and is accepted
LogoutDoesNotRevokeWitness ==
  /\ AuthForwarded
  /\ req.token \in cleared
  /\ Falsy(req.cookies)
  /\ BearerHeader(req.headers)
  /\ req.at > 0
  /\ req.user.userId = req.token.userId

\* the names of the gates
GateNames == {"auth", "authorize", "checkSubscription", "checkAICredits"}

\* C20: a gate that runs on a request either calls next() once and sends
\* nothing, or sends one rejection response and does not call next().
OneOutcomePerGate ==
  [][/\ req'.chain = req.chain /\ req'.route = req.route
     /\ Len(req'.ran) = Len(req.ran) + 1
     /\ req'.ran[Len(req'.ran)] \in GateNames
     => \/ /\ req'.nextCalls = req.nextCalls + 1
           /\ req'.sent = req.sent
           /\ req'.res = req.res
        \/ /\ req'.nextCalls = req.nextCalls
           /\ req'.sent = req.sent + 1
           /\ req'.res.status \in {401, 403, 500}]_vars

\* auth forwarded the request and authorize then rejected it
OneOutcomePerGateWitness ==
  /\ req.ran = <<"auth", "authorize">>
  /\ req.nextCalls = 1
  /\ req.sent = 1
  /\ req.res = Res(403, MsgForbidden)

\* C21: on a route the gates run in the order of the route's chain, auth
\* first, and then the handler: the handler runs only after every gate of the
\* chain has forwarded, and after a gate has rejected neither a later gate
\* nor the handler runs.
GatesRunInOrder ==
  req.route \in Routes =>
    /\ Len(req.ran) <= Len(req.chain) + 1
    /\ \A i \in 1..Len(req.ran) :
         req.ran[i] = IF i <= Len(req.chain) THEN req.chain[i].gate ELSE "handler"
    /\ req.chain[1].gate = "auth"
    /\ Len(req.ran) = Len(req.chain) + 1 => req.nextCalls = Len(req.chain)
    /\ Len(req.ran) <= req.nextCalls + 1
    /\ req.sent <= 1

\* the handler of POST /subscribe did not run for a staff account
GatesRunInOrderWitness ==
  /\ req.route = "subscribe"
  /\ req.user.present /\ req.user.role = "staff"
  /\ req.ran = <<"auth", "authorize">>
  /\ req.res.status = 403
  /\ Finished(req)

\* C22: when a store lookup of auth raises, the request is answered 500
\* with the fixed message and nothing else in the body, next() is not called,
\* nothing is attached, and the accounts, the tenants and the issued tokens
\* are left as they were for the requests that follow.
LookupErrorIsGeneric500 ==
  /\ [](AuthRan /\ req.thrown = "MongoError" =>
          /\ req.res = Res(500, MsgAuthFailed)
          /\ req.sent = 1
          /\ req.nextCalls = 0
          /\ req.ran = <<"auth">>
          /\ NothingAttached
          /\ req.update = "none")
  /\ [][req'.thrown = "MongoError" /\ req.thrown # "MongoError" =>
          users' = users /\ orgs' = orgs /\ issued' = issued]_vars

\* the lookup of the tenant raised, after the account was found
LookupErrorIsGeneric500Witness ==
  /\ AuthRan
  /\ req.thrown = "MongoError"
  /\ req.lookups = 2
  /\ req.res.status = 500
  /\ req.route = "subscribe"

\* the candidates base-1, base-2, ... that are free
FreeSuffixes(c) == {k \in 1..9 : Suffixed(c.baseSlug, k) \notin c.existing}

\* C25: for every set of existing slugs generateSlug terminates; it returns
\* the base slug when that is free and otherwise base-k for the smallest
\* k >= 1 such that base-k is free, and never a slug that exists.
SlugIsFirstFree ==
  /\ <>(call.pc = "done")
  /\ [](call.pc = "done" =>
          /\ call.slug \notin call.existing
          /\ call.baseSlug \notin call.existing => call.slug = call.baseSlug
          /\ call.baseSlug \in call.existing =>
               \E k \in FreeSuffixes(call) :
                 /\ call.slug = Suffixed(call.baseSlug, k)
                 /\ \A j \in FreeSuffixes(call) : k <= j)

\* 'A a' gives the base a-a; a-a and a-a-1 exist, and a-a-2 is returned
SlugIsFirstFreeWitness ==
  /\ call.pc = "done"
  /\ call.name = <<"A", " ", "a">>
  /\ call.baseSlug = <<"a", "-", "a">>
  /\ call.baseSlug \in call.existing
  /\ call.slug = <<"a", "-", "a", "-", "2">>
  /\ call.lookups = 3

\* C23 as stated: no two accounts have the same email, and a register
\* request that finds its email in use, at the check or at the save of the
\* account, is answered 400 and has created neither a tenant nor an account,
\* also when two requests interleave between the check and the saves.
EmailsUniqueAndRefused ==
  /\ \A u1 \in UserIds, u2 \in UserIds :
       users[u1]._id # 0 /\ users[u2]._id # 0 /\ users[u1].email = users[u2].email
         => u1 = u2
  /\ \A k \in RegIds :
       regs[k].pc = "done" /\ regs[k].emailInUse
       => /\ regs[k].res.status = 400
          /\ regs[k].orgId = 0
          /\ regs[k].userId = 0

RetryBacksOff ==
  /\ call.calls <= call.maxRetries
  /\ \A j \in 1..Len(call.waits) : call.waits[j] = call.baseDelay * Pow2(j - 1)
  /\ call.pc = "returned" =>
       /\ call.result \in Values
       /\ call.thrown = 0
       /\ Len(call.waits) = call.calls - 1
  /\ call.pc = "thrown" =>
       /\ call.calls = call.maxRetries
       /\ call.thrown = call.maxRetries
       /\ call.result = ""
       /\ Len(call.waits) = call.maxRetries - 1
  /\ call.pc = "try" => Len(call.waits) = call.calls
  /\ call.pc = "delay" => Len(call.waits) = call.calls - 1

\* three calls with a base delay of 1000 have failed, after waits of 1000 and
\* 2000, and the third error is thrown
RetryBacksOffWitness ==
  /\ call.pc = "thrown"
  /\ call.maxRetries = 3
  /\ call.baseDelay = 1000
  /\ call.calls = 3
  /\ call.waits = <<1000, 2000>>
  /\ call.thrown = 3

DeactivationTakesEffect ==
  /\ AuthRan /\ req.token \in Held /\ ~Expired(req.token, req.at)
       /\ req.thrown = "none"
       /\ users[req.token.userId]._id # 0
       /\ orgs[req.token.organizationId]._id # 0
     => LET user == users[req.token.userId]
            organization == orgs[req.token.organizationId]
        IN /\ AuthForwarded <=> user.isActive /\ organization.isActive
           /\ ~user.isActive => req.res = Res(401, MsgUser) /\ req.nextCalls = 0
           /\ user.isActive /\ ~organization.isActive
                => req.res = Res(401, MsgOrg) /\ req.nextCalls = 0
  /\ req.route = "login" /\ req.body.valid /\ req.body.pwOk
       /\ FindUserByEmail(req.body.email)._id # 0
     => LET user == FindUserByEmail(req.body.email)
            organization == FindOrgById(user.organizationId)
        IN ~user.isActive \/ (organization._id # 0 /\ ~organization.isActive)
             => req.res.status = 401 /\ req.setCookie = NoToken

\* the tenant was deactivated after the token was issued
DeactivationTakesEffectWitness ==
  /\ AuthRan
  /\ req.token \in Held
  /\ ~Expired(req.token, req.at)
  /\ users[req.token.userId].isActive
  /\ orgs[req.token.organizationId]._id # 0
  /\ ~orgs[req.token.organizationId].isActive
  /\ req.res = Res(401, MsgOrg)

(* ------------------------------ C29 ----------------------------------- *)
\* the refresh handler has run on the request
RefreshRan == req.route = "refresh" /\ Len(req.ran) = 2 /\ req.ran[2] = "handler"

\* C29: POST /refresh sets a new token exactly when its handler runs, which
\* is only after auth accepted the presented token; the new token is signed
\* for the account and tenant of the attached context, is issued at the time
\* of the request and expires seven days later; a well signed token whose
\* expiry has passed is answered 401 'Token expired.' with no new token; and
\* no step of a refresh request issues a token unless auth forwarded it.
RefreshReissuesForContext ==
  /\ [](req.route = "refresh" =>
          /\ req.setCookie # NoToken <=> RefreshRan
          /\ RefreshRan =>
                /\ AuthForwarded
                /\ req.token.kind = "jwt" /\ ~Expired(req.token, req.at)
                /\ req.user.present
                /\ req.res = Res(200, "Token refreshed successfully")
                /\ req.setCookie.userId = req.user.userId
                /\ req.setCookie.organizationId = req.user.organizationId
                /\ req.setCookie.key = JWT_SECRET
                /\ req.setCookie.iat = req.at \div 1000
                /\ req.setCookie.exp = req.at \div 1000 + SevenDays
                /\ req.setCookie \in Held
          /\ AuthRan /\ WellSigned(req.token) /\ Expired(req.token, req.at) =>
                /\ req.res = Res(401, MsgExpired)
                /\ req.nextCalls = 0
                /\ req.setCookie = NoToken)
  /\ [][req.route = "refresh" /\ issued' # issued =>
          AuthForwarded /\ ~Expired(req.token, req.at) /\ RefreshRan']_vars

\* a token presented later than it was issued is exchanged for one that
\* expires later
RefreshReissuesForContextWitness ==
  /\ RefreshRan
  /\ req.token \in Held
  /\ req.setCookie.userId = req.token.userId
  /\ req.setCookie.organizationId = req.token.organizationId
  /\ req.setCookie.exp > req.token.exp

\* a held token presented to /refresh after its expiry is answered 401
RefreshExpiredWitness ==
  /\ req.route = "refresh"
  /\ req.token \in Held
  /\ Expired(req.token, req.at)
  /\ req.res = Res(401, MsgExpired)
  /\ req.setCookie = NoToken

(* ------------------------------ C30 ----------------------------------- *)
\* C30: once a logout() has completed, and until a login, register or
\* refreshUser call that did not begin before that logout has succeeded,
\* user and organization are null and the protected routes do not render
\* their children; in particular the response of a call that began before
\* the logout does not restore the user.
LoggedOutStaysCleared ==
  ui.loggedOut =>
    /\ ui.user = 0
    /\ ui.organization = 0
    /\ ~isAuthenticated(ui)
    /\ ProtectedRoute(ui) # "children"

====
